---- MODULE Spec2Model ----
(***************************************************************************)
(* Model of the interleave crate (src/src/lib.rs): MultiIter<T>, the       *)
(* round-robin iterator over a Vec of boxed iterators.                     *)
(*                                                                         *)
(* A boxed iterator is modelled by the sequence of the values it has yet   *)
(* to yield: its next() yields the head and keeps the tail, and yields     *)
(* None for ever once the sequence is empty.  Indices are 0-based as in    *)
(* the source; items[i + 1] is the source's items[i].                      *)
(***************************************************************************)
EXTENDS Integers, Sequences, FiniteSets, TLC

\* ------------------------------------------------------------ bounds
MaxIters == 3    \* most iterators a MultiIter holds
MaxLen == 2      \* longest range handed to the MultiIter
MaxStart == 1    \* largest start of a range
MaxCalls == 8    \* most MultiIter::next calls in one behaviour
MaxPush == 1     \* most MultiIter::push calls in one behaviour

\* Option<T>: None, and Some(v) for a value v.
None == <<>>
Some(v) == <<v>>
\* The value of ret before the first call of MultiIter::next.
NoCall == <<0, 0>>

\* The range lo..hi of the tests, by the values it yields: lo, lo+1, .., hi-1.
Range(lo, hi) == [k \in 1..(hi - lo) |-> lo + k - 1]

\* The iterators the model hands to new and push.
Producers == {Range(lo, lo + n) : lo \in 0..MaxStart, n \in 0..MaxLen}

\* IterList<T>: vectors of at most n boxed iterators.
IterLists(n) == UNION {[1..k -> Producers] : k \in 0..n}

\* ------------------------------------------------------------ MultiIter
\* MultiIter::new
new(its) == [empty |-> FALSE, index |-> 0, items |-> its]

\* Faulty variant of default: the flag starts set.
defaultDirty == [empty |-> TRUE, index |-> 0, items |-> <<>>]

\* Default::default
default == [empty |-> FALSE, index |-> 0, items |-> <<>>]

\* Faulty variant of push: it also resets the cursor and the flag.
pushReset(self, item) ==
    [self EXCEPT !.items = Append(@, item), !.index = 0, !.empty = FALSE]

\* Faulty variant of push: the iterator is inserted at the front.
pushFront(self, item) == [self EXCEPT !.items = <<item>> \o @]

\* MultiIter::push
push(self, item) == [self EXCEPT !.items = Append(@, item)]

\* Iterator::next of a boxed iterator: the value (or None) and what is left.
IterNext(it) ==
    IF it = <<>> THEN [value |-> None, rest |-> <<>>]
                 ELSE [value |-> Some(Head(it)), rest |-> Tail(it)]

\* Faulty variant of OnSome: self.index is not advanced.
OnSomeStay(st, value, rest) ==
    [st EXCEPT !.items[st.index + 1] = rest,
               !.pulled = Append(@, st.index),
               !.empty = FALSE,
               !.ret = Some(value),
               !.done = TRUE]

\* Faulty variant of OnSome: self.empty is not cleared.
OnSomeKeepsEmpty(st, value, rest) ==
    [st EXCEPT !.items[st.index + 1] = rest,
               !.pulled = Append(@, st.index),
               !.index = @ + 1,
               !.ret = Some(value),
               !.done = TRUE]

\* Faulty variant of OnSome: the iterator is advanced once more, its next
\* element is dropped.
OnSomeTwice(st, value, rest) ==
    [st EXCEPT !.items[st.index + 1] = IF rest = <<>> THEN rest ELSE Tail(rest),
               !.pulled = Append(@, st.index),
               !.empty = FALSE,
               !.index = @ + 1,
               !.ret = Some(value),
               !.done = TRUE]

\* The iterator at self.index yielded Some(value): lines 84-86.
OnSome(st, value, rest) ==
    [st EXCEPT !.items[st.index + 1] = rest,
               !.pulled = Append(@, st.index),
               !.empty = FALSE,
               !.index = @ + 1,
               !.ret = Some(value),
               !.done = TRUE]

\* Faulty variant of OnNone: the iterator after an exhausted one is skipped.
OnNoneSkip(st, rest) ==
    [st EXCEPT !.items[st.index + 1] = rest,
               !.pulled = Append(@, st.index),
               !.index = @ + 2]

\* The iterator at self.index yielded None: line 88.
OnNone(st, rest) ==
    [st EXCEPT !.items[st.index + 1] = rest,
               !.pulled = Append(@, st.index),
               !.index = @ + 1]

\* Faulty variant of OnEnd: None is returned at the first wrap, whatever
\* self.empty says.
OnEndEager(st) ==
    [st EXCEPT !.index = 0, !.wraps = @ + 1, !.ret = None, !.done = TRUE]

\* Faulty variant of OnEnd: self.empty is cleared when None is returned.
OnEndClear(st) ==
    IF st.empty
    THEN [st EXCEPT !.index = 0, !.wraps = @ + 1, !.empty = FALSE,
                    !.ret = None, !.done = TRUE]
    ELSE [st EXCEPT !.index = 0, !.wraps = @ + 1, !.empty = TRUE]

\* self.index is past the last iterator: lines 91-96.
OnEnd(st) ==
    IF st.empty
    THEN [st EXCEPT !.index = 0, !.wraps = @ + 1, !.ret = None, !.done = TRUE]
    ELSE [st EXCEPT !.index = 0, !.wraps = @ + 1, !.empty = TRUE]

\* One iteration of the loop of MultiIter::next: lines 82-97.
Body(st) ==
    IF st.index < Len(st.items)
    THEN LET r == IterNext(st.items[st.index + 1])
         IN  IF r.value # None THEN OnSome(st, r.value[1], r.rest)
                               ELSE OnNone(st, r.rest)
    ELSE OnEnd(st)

RECURSIVE Loop(_)
\* loop { .. } of MultiIter::next, run until it returns.
Loop(st) == IF st.done THEN st ELSE Loop(Body(st))

\* MultiIter::next.  Besides the new self and the returned value, the result
\* records the indices whose iterators were pulled (in order) and how often
\* self.index was reset to 0.
next(self) ==
    Loop([empty |-> self.empty, index |-> self.index, items |-> self.items,
          ret |-> None, done |-> FALSE, pulled |-> <<>>, wraps |-> 0])

\* The loop of MultiIter::next as it is entered: self, nothing pulled yet.
LoopState(self) ==
    [empty |-> self.empty, index |-> self.index, items |-> self.items,
     ret |-> None, done |-> FALSE, pulled |-> <<>>, wraps |-> 0]

RECURSIVE Steps(_)
\* The states the loop of MultiIter::next goes through from st: st, the state
\* after each iteration, up to the one it returns in.
Steps(st) == IF st.done THEN <<st>> ELSE <<st>> \o Steps(Body(st))

RECURSIVE Drain(_)
\* for i in iter { .. }: next is called until it returns None; the values
\* returned, each with the index of the iterator it came from.
Drain(self) ==
    LET r == next(self)
    IN  IF r.ret = None THEN <<>>
        ELSE <<[src |-> r.pulled[Len(r.pulled)], val |-> r.ret[1]]>>
             \o Drain([empty |-> r.empty, index |-> r.index, items |-> r.items])

\* ------------------------------------------------------------ state
VARIABLES
    iter,    \* the MultiIter: [empty, index, items]
    orig,    \* the iterators as they were handed over (new, then each push)
    out,     \* the values returned so far: [src |-> index, val |-> value]
    ret,     \* what the most recent next call returned (NoCall before any)
    pulls,   \* per iterator, how often its next() was called
    calls,   \* number of MultiIter::next calls
    since,   \* number of pushes since the most recent next call (or since new)
    pushed,  \* number of MultiIter::push calls
    mark,    \* as the most recent push was made: Len(out), calls, index, ret
             \* and since
    pass     \* last: what the most recent pass that ended (index found past
             \* the last iterator) had yielded, "zero" or "some" values, "none"
             \* before any pass ended; yielded: values returned since then

vars == <<iter, orig, out, ret, pulls, calls, since, pushed, mark, pass>>

RECURSIVE Bump(_, _)
\* pulls after the iterators at the indices in pulled were pulled once each.
Bump(p, pulled) ==
    IF pulled = <<>> THEN p
    ELSE Bump([p EXCEPT ![Head(pulled) + 1] = @ + 1], Tail(pulled))

\* pass after a call of next with result r. last is about the most recent
\* pass that ended where next found index at the end of the collection and
\* reset it: the first reset of the call ends the pass in progress, a second
\* one ends a pass that yielded nothing. visit is about the most recent pass
\* that ended where index moved past the last iterator: it differs from last
\* after a value of the last iterator, which ends such a pass before the
\* reset. yielded counts the values returned since the most recent reset.
PassAfter(ps, r) ==
    LET last == IF r.wraps = 0 THEN ps.last
                ELSE IF r.wraps = 1 /\ ps.yielded > 0 THEN "some" ELSE "zero"
    IN  [last |-> last,
         visit |-> IF r.ret # None /\ r.index = Len(r.items) THEN "some"
                   ELSE IF r.wraps = 0 THEN ps.visit ELSE last,
         yielded |-> IF r.wraps = 0 THEN ps.yielded + 1
                     ELSE IF r.ret = None THEN 0 ELSE 1]

InitWith(m) ==
    /\ iter = m
    /\ orig = m.items
    /\ out = <<>>
    /\ ret = NoCall
    /\ pulls = [i \in 1..Len(m.items) |-> 0]
    /\ calls = 0
    /\ since = 0
    /\ pushed = 0
    /\ mark = [out |-> 0, calls |-> 0, index |-> 0, ret |-> NoCall, since |-> 0]
    /\ pass = [last |-> "none", visit |-> "none", yielded |-> 0]

Init ==
    \/ \E its \in IterLists(MaxIters) : InitWith(new(its))
    \/ InitWith(default)

\* A call of MultiIter::next.
Call ==
    /\ calls < MaxCalls
    /\ LET r == next(iter)
       IN  /\ iter' = [empty |-> r.empty, index |-> r.index, items |-> r.items]
           /\ ret' = r.ret
           /\ out' = IF r.ret = None THEN out
                     ELSE Append(out, [src |-> r.pulled[Len(r.pulled)],
                                       val |-> r.ret[1]])
           /\ pulls' = Bump(pulls, r.pulled)
           /\ pass' = PassAfter(pass, r)
    /\ calls' = calls + 1
    /\ since' = 0
    /\ UNCHANGED <<orig, pushed, mark>>

\* A call of MultiIter::push.
Push ==
    /\ Len(iter.items) < MaxIters
    /\ pushed < MaxPush
    /\ \E item \in Producers :
          /\ iter' = push(iter, item)
          /\ orig' = Append(orig, item)
    /\ pulls' = Append(pulls, 0)
    /\ since' = since + 1
    /\ pushed' = pushed + 1
    /\ mark' = [out |-> Len(out), calls |-> calls, index |-> iter.index,
                ret |-> ret, since |-> since]
    /\ UNCHANGED <<out, ret, calls, pass>>

Next == Call \/ Push

\* new, then any interleaving of next and push.
Spec == Init /\ [][Next]_vars

\* new, then next only: the collection is fixed after construction.
SpecFixed == Init /\ [][Call]_vars

\* The open range lo.. of the tests, which never ends: within MaxCalls calls
\* of MultiIter::next at most MaxCalls of its values are taken, so the first
\* MaxCalls + 1 of them stand for it.
Endless(lo) == Range(lo, lo + MaxCalls + 1)

\* The iterators of Producers and the open ranges.
ProducersInf == Producers \cup {Endless(lo) : lo \in 0..MaxStart}

InitInf ==
    \E its \in UNION {[1..k -> ProducersInf] : k \in 0..MaxIters} :
        InitWith(new(its))

\* new over finite and never-ending iterators, then next only.
SpecInf == InitInf /\ [][Call]_vars

\* A call of MultiIter::push on a collection that holds pushed iterators only:
\* one more push than Push allows, the first of them onto the empty collection.
Extend ==
    /\ Len(iter.items) < MaxIters
    /\ pushed <= MaxPush
    /\ \E item \in Producers :
          /\ iter' = push(iter, item)
          /\ orig' = Append(orig, item)
    /\ pulls' = Append(pulls, 0)
    /\ since' = since + 1
    /\ pushed' = pushed + 1
    /\ mark' = [out |-> Len(out), calls |-> calls, index |-> iter.index,
                ret |-> ret, since |-> since]
    /\ UNCHANGED <<out, ret, calls, pass>>

InitDefault == InitWith(default)

\* MultiIter::default, then any interleaving of next and push: every iterator
\* of the collection is a pushed one.
SpecPush == InitDefault /\ [][Call \/ Extend]_vars

\* ------------------------------------------------------------ properties
\* The values of a sequence of [src, val] records.
Vals(o) == [k \in 1..Len(o) |-> o[k].val]

\* Every iterator of its is exhausted.
AllExhausted(its) == \A i \in 1..Len(its) : its[i] = <<>>

\* What round r of the reference merge emits: the r-th element (0-based) of
\* every iterator that has more than r elements, in collection order.
RefRound(its, r) ==
    LET idx == [i \in 1..Len(its) |-> i]
        sel == SelectSeq(idx, LAMBDA i : Len(its[i]) > r)
    IN  [k \in 1..Len(sel) |-> [src |-> sel[k] - 1, val |-> its[sel[k]][r + 1]]]

RECURSIVE RefFrom(_, _)
RefFrom(its, r) ==
    IF \A i \in 1..Len(its) : Len(its[i]) <= r THEN <<>>
    ELSE RefRound(its, r) \o RefFrom(its, r + 1)

\* The round-by-round reference sequence of a collection.
Reference(its) == RefFrom(its, 0)

\* C1: with the collection fixed after new, the calls of next return exactly
\* the round-by-round reference sequence of the collection handed to new, one
\* value per call, and every call after that returns None.
C1_RoundRobinOrder ==
    LET ref == Reference(orig)
    IN  /\ Len(out) <= Len(ref)
        /\ out = SubSeq(ref, 1, Len(out))
        /\ calls <= Len(ref) => Len(out) = calls /\ (calls > 0 => ret # None)
        /\ calls > Len(ref) => Len(out) = Len(ref) /\ ret = None

\* Two iterators of equal length 2: a0, b0, a1, b1, then None.
C1_Witness ==
    /\ orig = <<Range(0, 2), Range(1, 3)>>
    /\ Vals(out) = <<0, 1, 1, 2>>
    /\ calls = 5
    /\ ret = None

\* C2: under any interleaving of next and push, a call of next returns None
\* exactly when every iterator of the collection is exhausted as the call
\* starts; otherwise it returns a value.
C2_EndIffAllExhausted ==
    [][calls' = calls + 1 => (ret' = None <=> AllExhausted(iter.items))]_vars

\* None was returned after a push and after values were returned.
C2_Witness ==
    /\ ret = None
    /\ since = 0
    /\ pushed > 0
    /\ Len(out) >= 2
    /\ AllExhausted(iter.items)

\* C3: a call of next that directly follows a call that returned None (no
\* push in between) returns None again, leaves the iterators alone and ends
\* with index = 0 and empty = TRUE.
C3_IdempotentEnd ==
    [][(ret = None /\ since = 0 /\ calls' = calls + 1)
         => /\ ret' = None
            /\ iter'.index = 0
            /\ iter'.empty = TRUE
            /\ iter'.items = iter.items]_vars

\* At least two calls in a row returned None after values were returned.
C3_Witness ==
    /\ ret = None
    /\ pushed = 0
    /\ Len(out) > 0
    /\ calls >= Len(out) + 2

\* C4: with no iterators every call of next returns None, and default gives
\* the state new gives for an empty vector: empty FALSE, index 0, no items.
C4_EmptyCollection ==
    /\ default = new(<<>>)
    /\ orig = <<>> =>
         /\ calls = 0 => iter = default /\ ~iter.empty /\ iter.index = 0
         /\ calls > 0 => ret = None /\ out = <<>> /\ iter.items = <<>>

\* Several calls on a MultiIter without iterators.
C4_Witness ==
    /\ orig = <<>>
    /\ iter.items = <<>>
    /\ calls >= 3
    /\ ret = None

\* Number of elements taken so far from the iterator at 1-based position i.
Consumed(i) == Len(orig[i]) - Len(iter.items[i])

\* C5 as stated: after any number of calls the numbers of elements consumed
\* from any two iterators differ by at most 1.
C5_DriftAllPairs ==
    \A i, j \in 1..Len(orig) : Consumed(i) - Consumed(j) <= 1

\* C5 as amended: with the collection fixed after new, no iterator has had
\* more than one element more consumed than an iterator that still has
\* elements.
C5_DriftActive ==
    \A i, j \in 1..Len(orig) :
        iter.items[j] # <<>> => Consumed(i) - Consumed(j) <= 1

\* An exhausted iterator is one element ahead of one that still has elements.
C5_Witness ==
    \E i, j \in 1..Len(orig) :
        /\ iter.items[i] = <<>>
        /\ iter.items[j] # <<>>
        /\ Consumed(j) > 0
        /\ Consumed(i) = Consumed(j) + 1

\* C6: with the collection fixed after new, between calls of next no
\* iterator's next() has been called more than once more often than the
\* next() of an iterator that still has elements.
C6_PullCounts ==
    \A p, a \in 1..Len(orig) :
        iter.items[a] # <<>> => pulls[p] - pulls[a] <= 1

\* An exhausted iterator, polled again after its exhaustion, is one call
\* ahead of an iterator that still has elements.
C6_Witness ==
    \E p, a \in 1..Len(orig) :
        /\ iter.items[p] = <<>>
        /\ pulls[p] > Len(orig[p]) + 1
        /\ iter.items[a] # <<>>
        /\ pulls[p] = pulls[a] + 1

\* The values returned since the most recent push.
SincePush == SubSeq(out, mark.out + 1, Len(out))

\* The most recently pushed iterator, as it was pushed, and its index.
Pushed == orig[Len(orig)]
PushedIndex == Len(orig) - 1

\* The most recent push directly followed a call of next that returned None.
PushedAfterEnd == pushed > 0 /\ mark.ret = None /\ mark.since = 0

\* The most recent push was made when the most recent call of next, if any,
\* had returned a value.
PushedBeforeEnd == pushed > 0 /\ mark.ret # None

\* C7: push leaves index and empty alone, keeps every iterator already in the
\* collection at its position with its remaining elements (an exhausted one
\* stays exhausted), and puts the new iterator at the last index.
C7_PushFrame ==
    [][pushed' = pushed + 1
         => /\ iter'.index = iter.index
            /\ iter'.empty = iter.empty
            /\ Len(iter'.items) = Len(iter.items) + 1
            /\ SubSeq(iter'.items, 1, Len(iter.items)) = iter.items
            /\ iter'.items[Len(iter'.items)] = orig'[Len(orig')]]_vars

\* A push after None was returned: empty is still set, the exhausted iterators
\* are still exhausted, the new one is last.
C7_Witness ==
    /\ since = 1
    /\ PushedAfterEnd
    /\ iter.empty
    /\ iter.index = 0
    /\ Len(out) > 0
    /\ Len(iter.items) >= 2
    /\ iter.items[Len(iter.items)] # <<>>
    /\ \A i \in 1..(Len(iter.items) - 1) : iter.items[i] = <<>>

\* C8: when an iterator with at least one element is pushed right after a
\* call that returned None, the calls that follow return that iterator's
\* elements in order, one per call, and then None.
C8_AppendAfterEnd ==
    (PushedAfterEnd /\ Pushed # <<>>) =>
        LET n == calls - mark.calls
            q == Pushed
        IN  /\ Len(SincePush) = IF n <= Len(q) THEN n ELSE Len(q)
            /\ \A k \in 1..Len(SincePush) :
                  SincePush[k] = [src |-> PushedIndex, val |-> q[k]]
            /\ (n > 0 /\ n <= Len(q)) => ret = Some(q[n])
            /\ n > Len(q) => ret = None

\* None, a push of a two-element iterator, its two elements, None again.
C8_Witness ==
    /\ PushedAfterEnd
    /\ mark.out > 0
    /\ Len(Pushed) = 2
    /\ Len(out) = mark.out + 2
    /\ calls = mark.calls + 3
    /\ ret = None

\* C9: when an iterator q with at least one element is pushed before None
\* was returned, the pass in progress goes on from the cursor, every pass
\* that q has elements for ends with an element of q, taken at q's index, so
\* that before q's first element no other iterator yields twice, and q's
\* elements come in q's order.
C9_AppendBeforeEnd ==
    (PushedBeforeEnd /\ Pushed # <<>>) =>
        LET sp == SincePush
            q == Pushed
            fromQ == SelectSeq(sp, LAMBDA e : e.src = PushedIndex)
            QYields(k) == Cardinality({j \in 1..k : sp[j].src = PushedIndex})
        IN  /\ Len(fromQ) <= Len(q)
            /\ \A k \in 1..Len(fromQ) : fromQ[k].val = q[k]
            /\ sp # <<>> => sp[1].src >= mark.index
            /\ \A k \in 1..(Len(sp) - 1) :
                  sp[k + 1].src <= sp[k].src
                     => sp[k].src = PushedIndex \/ QYields(k) = Len(q)
            /\ \A k \in 1..Len(sp) :
                  QYields(k) = 0 =>
                     \A j \in 1..(k - 1) : sp[j].src < sp[k].src

\* A two-element iterator pushed in the middle of a pass over two iterators
\* that both have elements left: both its elements have been returned, each
\* at the end of a pass.
C9_Witness ==
    /\ PushedBeforeEnd
    /\ mark.index = 1
    /\ mark.out > 0
    /\ Len(Pushed) = 2
    /\ PushedIndex = 2
    /\ Len(SincePush) >= 4
    /\ SincePush[1].src = 1
    /\ SincePush[2].src = 2
    /\ SincePush[3].src = 0
    /\ iter.items[3] = <<>>

\* The collection its handed over in the order p, a permutation of its
\* positions.
Permute(its, p) == [i \in 1..Len(its) |-> its[p[i]]]

\* Every iterator of its is a prefix of one common sequence.
CommonPrefix(its) ==
    \A i, j \in 1..Len(its) :
        Len(its[i]) <= Len(its[j]) => its[i] = SubSeq(its[j], 1, Len(its[i]))

\* The values the iterators of the model can yield.
Values == 0..(MaxStart + MaxLen)

\* The round (pass over the collection) each returned value belongs to: a
\* new pass starts wherever the source index does not increase.
RoundsOf(o) ==
    [k \in 1..Len(o) |->
        Cardinality({j \in 1..(k - 1) : o[j + 1].src <= o[j].src})]

\* For every round, the multiset of the values returned in it.
RoundBags(o) ==
    LET rd == RoundsOf(o)
    IN  [r \in 0..Len(o), v \in Values |->
            Cardinality({k \in 1..Len(o) : rd[k] = r /\ o[k].val = v})]

\* C10: with the collection fixed after new and drained (the first None has
\* just been returned), the iterators handed over in any other order give
\* the same multiset of values in every round, and the very same sequence of
\* values when every iterator is a prefix of one common sequence.
C10_PermutationInvariance ==
    (ret = None /\ calls = Len(out) + 1) =>
        LET bags == RoundBags(out)
            same == CommonPrefix(orig)
        IN  \A p \in Permutations(1..Len(orig)) :
                LET o == Drain(new(Permute(orig, p)))
                IN  /\ Len(o) = Len(out)
                    /\ RoundBags(o) = bags
                    /\ same => Vals(o) = Vals(out)

\* The ranges 0..1, 0..2, 0..0 drained: 0, 0, 1.
C10_Witness ==
    /\ ret = None
    /\ calls = Len(out) + 1
    /\ orig = <<Range(0, 1), Range(0, 2), Range(0, 0)>>
    /\ Vals(out) = <<0, 0, 1>>

\* The index of the first iterator of its that still has elements, looking
\* from the cursor c onwards in cyclic order (c, c+1, .., N-1, 0, .., c-1);
\* -1 when there is none.
FirstActive(its, c) ==
    LET N == Len(its)
        ord == [k \in 1..N |-> (c + k - 1) % N]
        act == {k \in 1..N : its[ord[k] + 1] # <<>>}
    IN  IF act = {} THEN -1
        ELSE ord[CHOOSE k \in act : \A j \in act : k <= j]

\* C11: under any interleaving of next and push, a value returned by next is
\* the next element of the first iterator with elements at or after the
\* cursor in cyclic order; if that iterator has index i the call ends with
\* index = i + 1 and empty = FALSE, and no other iterator lost an element.
C11_SelectionStep ==
    [][(calls' = calls + 1 /\ ret' # None)
         => LET i == FirstActive(iter.items, iter.index)
            IN  /\ i >= 0
                /\ ret' = Some(Head(iter.items[i + 1]))
                /\ out'[Len(out')].src = i
                /\ iter'.index = i + 1
                /\ iter'.empty = FALSE
                /\ iter'.items = [iter.items EXCEPT ![i + 1] = Tail(@)]]_vars

\* After a push, a value came from an iterator before the one that yielded
\* last (the cursor wrapped), past an exhausted iterator at index 0.
C11_Witness ==
    /\ pushed > 0
    /\ ret # None
    /\ ret # NoCall
    /\ since = 0
    /\ Len(out) >= 2
    /\ out[Len(out)].src < out[Len(out) - 1].src
    /\ out[Len(out)].src > 0
    /\ iter.items[1] = <<>>

RECURSIVE Total(_)
\* The sum of a sequence of numbers.
Total(p) == IF p = <<>> THEN 0 ELSE Head(p) + Total(Tail(p))

\* C12 as stated, for the calls that return a value: such a call of next
\* calls next() on exactly one iterator.
C12_ExactlyOnePull ==
    [][(calls' = calls + 1 /\ ret' # None)
         => Total(pulls') = Total(pulls) + 1]_vars

\* C12 as amended: a call of next that returns a value takes exactly one
\* element, from an iterator it pulls once; every other iterator it pulls is
\* exhausted and stays as it is; a call that returns None pulls exhausted
\* iterators only.
C12_OneYieldPerCall ==
    [][calls' = calls + 1
         => LET I == 1..Len(iter.items)
                took(i) == Len(iter.items[i]) - Len(iter'.items[i])
                idle(j) == /\ took(j) = 0
                           /\ pulls'[j] > pulls[j] => iter.items[j] = <<>>
            IN  /\ ret' # None =>
                     \E i \in I : /\ took(i) = 1
                                  /\ pulls'[i] = pulls[i] + 1
                                  /\ \A j \in I \ {i} : idle(j)
                /\ ret' = None => \A j \in I : idle(j)]_vars

\* The first call pulled three iterators and returned a value.
C12_Witness ==
    /\ calls = 1
    /\ ret # None
    /\ Total(pulls) = 3
    /\ Len(out) = 1

\* C13: a call of next returns after resetting index at most twice and
\* calling next() at most twice on each iterator, so at most 2N times in all;
\* a call that directly follows a call that returned None calls next() once
\* on each iterator, N times in all.  Some iterators may never end.
C13_CallBound ==
    [][calls' = calls + 1
         => LET I == 1..Len(iter.items)
                r == next(iter)
            IN  /\ r.done
                /\ r.wraps <= 2
                /\ pulls' = Bump(pulls, r.pulled)
                /\ \A i \in I : pulls'[i] - pulls[i] <= 2
                /\ Total(pulls') - Total(pulls) <= 2 * Len(iter.items)
                /\ (ret = None /\ since = 0) =>
                      /\ r.wraps = 1
                      /\ \A i \in I : pulls'[i] - pulls[i] = 1]_vars

\* Three exhausted iterators: the first call pulled each twice (2N pulls),
\* the second, made after None, pulled each once (N pulls).
C13_Witness ==
    /\ calls = 2
    /\ ret = None
    /\ Len(iter.items) = 3
    /\ \A i \in 1..3 : pulls[i] = 3

\* C14: under any interleaving of next and push, between calls and at every
\* step inside next, 0 <= index <= N for the current number N of iterators;
\* an iteration that finds index = N resets it to 0 and pulls nothing, and an
\* iteration that pulls an iterator pulls the one at index, with index < N.
C14_CursorInvariant ==
    [](/\ 0 <= iter.index
       /\ iter.index <= Len(iter.items)
       /\ LET tr == Steps(LoopState(iter))
          IN  \A k \in 1..Len(tr) :
                 /\ 0 <= tr[k].index
                 /\ tr[k].index <= Len(tr[k].items)
                 /\ Len(tr[k].items) = Len(iter.items)
                 /\ k < Len(tr) =>
                      /\ tr[k].index = Len(tr[k].items) =>
                           /\ tr[k + 1].index = 0
                           /\ tr[k + 1].pulled = tr[k].pulled
                      /\ tr[k + 1].pulled # tr[k].pulled =>
                           /\ tr[k].index < Len(tr[k].items)
                           /\ tr[k + 1].pulled = Append(tr[k].pulled, tr[k].index)
                           /\ tr[k + 1].index = tr[k].index + 1)

\* After a push and several values the cursor rests at N between calls: the
\* next call starts by resetting it.
C14_Witness ==
    /\ pushed > 0
    /\ since = 0
    /\ Len(iter.items) >= 2
    /\ iter.index = Len(iter.items)
    /\ Len(out) >= 3
    /\ calls < MaxCalls

\* The most recent pass that ended yielded no value, a pass ending where next
\* finds index at the end of the collection and resets it.
LastPassZeroAtReset == pass.last = "zero"

\* The same, a pass ending as soon as index has moved past the last iterator.
LastPassZeroAtVisit == pass.visit = "zero"

\* C15 as stated: between calls, under any interleaving of next and push,
\* empty is TRUE exactly when the most recent pass that ended yielded no
\* value, and FALSE otherwise, wherever a pass is taken to end.
C15_RoundEmptyMeaning ==
    \/ iter.empty <=> LastPassZeroAtReset
    \/ iter.empty <=> LastPassZeroAtVisit

\* C15 as amended: between calls, under any interleaving of next and push,
\* empty is TRUE exactly when the most recent pass that ended yielded no
\* value and no value was returned since, which is exactly when the most
\* recent call of next returned None.
C15_RoundEmptyAfterNone ==
    /\ iter.empty <=> (pass.last = "zero" /\ pass.yielded = 0)
    /\ iter.empty <=> ret = None

\* After a pass without values two iterators were pushed and the first of
\* them yielded: index is inside the collection, the pass without values is
\* the most recent one that ended, and empty is FALSE.
C15_Witness ==
    /\ pushed >= 2
    /\ pass.last = "zero"
    /\ pass.yielded > 0
    /\ ~iter.empty
    /\ iter.index < Len(iter.items)
    /\ Len(out) >= 1

\* The number of values among out[a..b] that came from the iterator at index p.
Yields(p, a, b) == Cardinality({j \in a..b : out[j].src = p})

\* The iterator at index p still has an element once out[1..k] were returned.
HasMore(p, k) == Yields(p, 1, k) < Len(orig[p + 1])

\* out[a] and out[b] are consecutive values of one iterator.
Consecutive(a, b) ==
    /\ a < b
    /\ out[a].src = out[b].src
    /\ \A j \in (a + 1)..(b - 1) : out[j].src # out[a].src

\* C16: with a fixed collection of N iterators, finite or never-ending, an
\* iterator that still has an element after any number of returned values
\* yields among the next N returned values; and between two consecutive
\* values of one iterator every other iterator yields exactly one value if it
\* still had an element, none if it had not.
C16_NoStarvation ==
    LET N == Len(orig)
        L == Len(out)
    IN  /\ \A k \in 0..L : \A p \in 0..(N - 1) :
              (HasMore(p, k) /\ k + N <= L) => Yields(p, k + 1, k + N) >= 1
        /\ \A a \in 1..L : \A b \in 1..L :
              Consecutive(a, b) =>
                  \A q \in 0..(N - 1) \ {out[a].src} :
                      Yields(q, a + 1, b - 1) = IF HasMore(q, a) THEN 1 ELSE 0

\* Seven values were returned from a never-ending iterator and two finite
\* ones of different lengths: the never-ending one went on alone.
C16_Witness ==
    /\ Len(orig) = 3
    /\ Len(orig[1]) > MaxLen
    /\ Len(orig[2]) = 1
    /\ Len(orig[3]) = 2
    /\ Len(out) = 7

\* The values of out that came from the iterator at index p, in the order of
\* out.
FromSource(p) ==
    LET taken == SelectSeq(out, LAMBDA e : e.src = p)
    IN  [j \in 1..Len(taken) |-> taken[j].val]

\* s is an initial segment of t.
IsPrefix(s, t) == Len(s) <= Len(t) /\ \A j \in 1..Len(s) : s[j] = t[j]

\* C17: under any interleaving of next and push over finite iterators, the
\* values returned from one iterator are always the first of its elements in
\* its own order, each once; and when the most recent call returned None and
\* nothing was pushed since, the values returned so far are all the elements
\* of all the iterators, the pushed ones included.
C17_NoLossNoDup ==
    [](/\ \A j \in 1..Len(out) : out[j].src \in 0..(Len(orig) - 1)
       /\ \A i \in 1..Len(orig) : IsPrefix(FromSource(i - 1), orig[i])
       /\ (ret = None /\ since = 0) =>
              \A i \in 1..Len(orig) : FromSource(i - 1) = orig[i])

\* next returned None after the values of three iterators, one of them pushed
\* between calls after a value had been returned, were all returned.
C17_Witness ==
    /\ ret = None
    /\ since = 0
    /\ pushed > 0
    /\ mark.out > 0
    /\ Len(orig) = 3
    /\ \A i \in 1..3 : Len(orig[i]) > 0
    /\ Len(out) >= 4

\* ---------------------------------------------------- compacting variant
\* The variant merger of the design notes: it drops the producers that have
\* signalled exhaustion from the collection at the end of each full pass and
\* keeps the others in their order. dead holds the positions of the current
\* collection that signalled exhaustion during the pass in progress.
compactNew(its) == [empty |-> FALSE, index |-> 0, items |-> its, dead |-> {}]

\* The collection without the positions in dead, order kept.
Compacted(items, dead) ==
    LET idx == [i \in 1..Len(items) |-> i]
        keep == SelectSeq(idx, LAMBDA i : i \notin dead)
    IN  [k \in 1..Len(keep) |-> items[keep[k]]]

\* One iteration of the variant's pull_next loop.
CompactBody(st) ==
    IF st.index < Len(st.items)
    THEN LET r == IterNext(st.items[st.index + 1])
         IN  IF r.value # None
             THEN [st EXCEPT !.items[st.index + 1] = r.rest,
                             !.empty = FALSE,
                             !.index = @ + 1,
                             !.ret = r.value,
                             !.done = TRUE]
             ELSE [st EXCEPT !.dead = @ \cup {st.index + 1},
                             !.index = @ + 1]
    ELSE LET swept == [st EXCEPT !.items = Compacted(st.items, st.dead),
                                 !.dead = {},
                                 !.index = 0]
         IN  IF st.empty
             THEN [swept EXCEPT !.ret = None, !.done = TRUE]
             ELSE [swept EXCEPT !.empty = TRUE]

RECURSIVE CompactLoop(_)
CompactLoop(st) == IF st.done THEN st ELSE CompactLoop(CompactBody(st))

\* pull_next of the variant: the merger afterwards and the result.
compactNext(self) ==
    LET st == CompactLoop([empty |-> self.empty, index |-> self.index,
                           items |-> self.items, dead |-> self.dead,
                           ret |-> None, done |-> FALSE])
    IN  [self |-> [empty |-> st.empty, index |-> st.index,
                   items |-> st.items, dead |-> st.dead],
         ret |-> st.ret]

RECURSIVE CompactRun(_, _)
\* n calls of the variant's pull_next on run.self, their results appended to
\* run.results.
CompactRun(run, n) ==
    IF n = 0 THEN run
    ELSE LET r == compactNext(run.self)
         IN  CompactRun([self |-> r.self, results |-> Append(run.results, r.ret)],
                        n - 1)

\* The variant built over the collection handed to new, after as many calls
\* as were made of next.
CompactNow == CompactRun([self |-> compactNew(orig), results |-> <<>>], calls)

\* C18: with the collection fixed after new, over finite iterators, the
\* variant that drops exhausted producers after each pass gives, call for
\* call, the results of next: after any number of calls the most recent
\* results are equal, and the values returned so far are the same sequence.
C18_CompactionEquivalence ==
    LET rs == CompactNow.results
    IN  /\ calls > 0 => rs[calls] = ret
        /\ SelectSeq(rs, LAMBDA x : x # None)
               = [k \in 1..Len(out) |-> Some(out[k].val)]

\* next returned None after three values of two iterators and three pulls of
\* an iterator that was exhausted from the start, and the variant has dropped
\* every producer from its collection.
C18_Witness ==
    /\ Len(orig) = 3
    /\ orig[1] = <<>>
    /\ Len(orig[2]) = 2
    /\ Len(orig[3]) = 1
    /\ ret = None
    /\ Len(out) = 3
    /\ pulls[1] >= 3
    /\ CompactNow.self.items = <<>>

====
